---- MODULE Spec2Model ----
(***************************************************************************)
(* A model of github.com/liwnn/skiplist: the skip list with a configurable *)
(* maximum level, a free list of recycled nodes, a seekable iterator and   *)
(* ranges.  Nodes live in a heap indexed by node id; the header is node 0. *)
(* A Go slice n.forward is modelled by its backing array forward[n] (whose *)
(* length is the slice's capacity) and its length flen[n].  The heap grows *)
(* with every allocation: item, forward and flen have domain 0..nalloc.    *)
(***************************************************************************)
EXTENDS Integers, Sequences, FiniteSets, TLC

\* ---------------------------------------------------------------- bounds
MaxKey == 3          \* items have keys 1..MaxKey
MaxValue == 1        \* items have payloads 0..MaxValue
MaxLevelBound == 2   \* NewWithLevel is called with maxLevel in 1..MaxLevelBound

\* ------------------------------------------------------ program constants
DefaultMaxLevel == 32
DefaultFreeListSize == 32

\* ------------------------------------------------------------- the heap
Nil == -1                      \* the nil *node
Header == 0                    \* sl.header
MaxNodes == DefaultFreeListSize + 2   \* allocations a run that fills the pool makes

\* Items are the README's KV{Key, Value}; NilItem is the nil Item interface.
NilItem == [Key |-> -1, Value |-> -1]
Keys == 1..MaxKey
Items == [Key : Keys, Value : 0..MaxValue]

VARIABLES
    maxLevel,   \* sl.maxLevel
    level,      \* sl.level
    length,     \* sl.length
    item,       \* node.item, per node
    forward,    \* backing array of node.forward, per node
    flen,       \* len(node.forward), per node
    nalloc,     \* number of nodes allocated so far (ids 1..nalloc)
    freelist,   \* sl.freelist.freelist
    it,         \* Iterator.x of the iterator the caller holds, or NoIter
    range,      \* the Range the caller holds, or NoRange
    got,        \* the items the last Range.ForEach handed to its callback
    ret,        \* the last call and its outcome
    ref         \* reference map: the items put and not removed

NodeIds == 1..nalloc           \* the nodes allocated so far
Nodes == 0..nalloc             \* the header and the nodes allocated so far

listvars == <<maxLevel, level, length, item, forward, flen, nalloc, freelist>>
vars == <<maxLevel, level, length, item, forward, flen, nalloc, freelist,
          it, range, got, ret, ref>>

NoIter == -3
NoRange == [begin |-> -3, end |-> -3]

\* KV.Less: kv.Key < than.(KV).Key
Less(a, b) == a.Key < b.Key

\* Max that forgets its first argument
MaxSecond(a, b) == b

Max(a, b) == IF a > b THEN a ELSE b

\* x.forward[i] (lanes are numbered from 0, TLA+ sequences from 1)
Fwd(x, i) == forward[x][i + 1]

\* Walk with the comparison turned into "not greater": it walks past an
\* equivalent item
RECURSIVE WalkLE(_, _, _)
WalkLE(x, i, key) ==
    LET y == Fwd(x, i)
    IN  IF y # Nil /\ ~Less(key, item[y]) THEN WalkLE(y, i, key) ELSE x

\* the inner loop of the descent: advance along lane i while the next
\* node's item is less than key
RECURSIVE Walk(_, _, _)
Walk(x, i, key) ==
    LET y == Fwd(x, i)
    IN  IF y # Nil /\ Less(item[y], key) THEN Walk(y, i, key) ELSE x

\* the outer loop of the descent, from lane i down to lane 0, recording
\* the predecessor of every lane
RECURSIVE Scan(_, _, _, _)
Scan(x, i, prev, key) ==
    IF i < 0 THEN [x |-> x, prev |-> prev]
    ELSE LET w == Walk(x, i, key)
         IN  Scan(w, i - 1, [prev EXCEPT ![i] = w], key)

\* var prev = staticAlloc[:sl.maxLevel]; the descent from the header
Descend(key) ==
    Scan(Header, level - 1, [i \in 0..(maxLevel - 1) |-> Nil], key)

\* a comparison with a nil key panics (than.(KV) of a nil interface); the
\* descent compares as soon as some lane below level is not empty
DescentPanics(key) ==
    key = NilItem /\ \E i \in 0..(level - 1) : Fwd(Header, i) # Nil

\* IsMatch without the comparison
IsMatchNoCheck(x, key) == x # Nil

\* x != nil && !key.Less(x.item): the node after the descent holds an item
\* equivalent to key
IsMatch(x, key) == x # Nil /\ ~Less(key, item[x])

\* searchNode returning the node the descent stopped at
searchNodeNoStep(key) == Descend(key).x

\* searchNode that runs along the topmost lane alone
searchNodeTopLane(key) == Fwd(Walk(Header, level - 1, key), 0)

searchNode(key) == Fwd(Descend(key).x, 0)

\* Search returning the next node's item without comparing it to the key
SearchNoCheck(key) ==
    LET x == Fwd(Descend(key).x, 0)
    IN  IF x # Nil THEN item[x] ELSE NilItem

Search(key) ==
    LET x == Fwd(Descend(key).x, 0)
    IN  IF IsMatch(x, key) THEN item[x] ELSE NilItem

SkipListLen == length

\* ------------------------------------------------------------ free list
\* newNode that hands out the pooled node and leaves it in the pool
NewNodeNoPop(lvl) ==
    IF Len(freelist) = 0
    THEN LET n == nalloc + 1
         IN  [n |-> n,
              item |-> (n :> NilItem) @@ item,
              forward |-> (n :> [j \in 1..lvl |-> Nil]) @@ forward,
              flen |-> (n :> lvl) @@ flen,
              nalloc |-> nalloc + 1,
              freelist |-> freelist]
    ELSE LET n == freelist[Len(freelist)]
         IN  [n |-> n,
              item |-> item,
              forward |-> IF Len(forward[n]) < lvl
                          THEN [forward EXCEPT ![n] = [j \in 1..lvl |-> Nil]]
                          ELSE forward,
              flen |-> [flen EXCEPT ![n] = lvl],
              nalloc |-> nalloc,
              freelist |-> freelist]

\* newNode that hands out a pooled node without reslicing n.forward
NewNodeNoReslice(lvl) ==
    IF Len(freelist) = 0
    THEN LET n == nalloc + 1
         IN  [n |-> n,
              item |-> (n :> NilItem) @@ item,
              forward |-> (n :> [j \in 1..lvl |-> Nil]) @@ forward,
              flen |-> (n :> lvl) @@ flen,
              nalloc |-> nalloc + 1,
              freelist |-> freelist]
    ELSE LET n == freelist[Len(freelist)]
         IN  [n |-> n,
              item |-> item,
              forward |-> forward,
              flen |-> flen,
              nalloc |-> nalloc,
              freelist |-> SubSeq(freelist, 1, Len(freelist) - 1)]

\* FreeList.newNode: the node handed out and the heap after the call
newNode(lvl) ==
    IF Len(freelist) = 0
    THEN LET n == nalloc + 1
         IN  [n |-> n,
              item |-> (n :> NilItem) @@ item,
              forward |-> (n :> [j \in 1..lvl |-> Nil]) @@ forward,
              flen |-> (n :> lvl) @@ flen,
              nalloc |-> nalloc + 1,
              freelist |-> freelist]
    ELSE LET n == freelist[Len(freelist)]
         IN  [n |-> n,
              item |-> item,
              forward |-> IF Len(forward[n]) < lvl
                          THEN [forward EXCEPT ![n] = [j \in 1..lvl |-> Nil]]
                          ELSE forward,
              flen |-> [flen EXCEPT ![n] = lvl],
              nalloc |-> nalloc,
              freelist |-> SubSeq(freelist, 1, Len(freelist) - 1)]

\* freeNode whose capacity test admits one node too many
FreeNodeOverfills(n, itm, fw) ==
    IF Len(freelist) <= DefaultFreeListSize
    THEN [item |-> [itm EXCEPT ![n] = NilItem],
          forward |-> [fw EXCEPT ![n] =
                          [j \in 1..Len(fw[n]) |->
                              IF j <= flen[n] THEN Nil ELSE fw[n][j]]],
          freelist |-> Append(freelist, n),
          out |-> TRUE]
    ELSE [item |-> itm, forward |-> fw, freelist |-> freelist, out |-> FALSE]

\* freeNode without the loop that clears n.forward
FreeNodeKeepsForward(n, itm, fw) ==
    IF Len(freelist) < DefaultFreeListSize
    THEN [item |-> [itm EXCEPT ![n] = NilItem],
          forward |-> fw,
          freelist |-> Append(freelist, n),
          out |-> TRUE]
    ELSE [item |-> itm, forward |-> fw, freelist |-> freelist, out |-> FALSE]

\* FreeList.freeNode applied to node n of heap (itm, fw): the heap and the
\* pool after the call, and the value returned
freeNode(n, itm, fw) ==
    IF Len(freelist) < DefaultFreeListSize
    THEN [item |-> [itm EXCEPT ![n] = NilItem],
          forward |-> [fw EXCEPT ![n] =
                          [j \in 1..Len(fw[n]) |->
                              IF j <= flen[n] THEN Nil ELSE fw[n][j]]],
          freelist |-> Append(freelist, n),
          out |-> TRUE]
    ELSE [item |-> itm, forward |-> fw, freelist |-> freelist, out |-> FALSE]

\* --------------------------------------------------------------- Insert
\* for i := sl.level; i < lvl; i++ { prev[i] = sl.header }
RaisePrev(prev, lvl) ==
    [i \in DOMAIN prev |-> IF i >= level /\ i < lvl THEN Header ELSE prev[i]]

\* Splice with the loop started at lane 1
RECURSIVE SpliceFromOne(_, _, _, _, _)
SpliceFromOne(fw, x, prev, i, lvl) ==
    IF i = 0 THEN SpliceFromOne(fw, x, prev, 1, lvl)
    ELSE IF i >= lvl THEN fw
    ELSE LET p == prev[i]
             old == fw[p][i + 1]
             fw1 == [fw EXCEPT ![x][i + 1] = old]
             fw2 == [fw1 EXCEPT ![p][i + 1] = x]
         IN  SpliceFromOne(fw2, x, prev, i + 1, lvl)

\* Splice that points the new node at itself
RECURSIVE SpliceSelfLoop(_, _, _, _, _)
SpliceSelfLoop(fw, x, prev, i, lvl) ==
    IF i >= lvl THEN fw
    ELSE LET p == prev[i]
             fw1 == [fw EXCEPT ![x][i + 1] = x]
             fw2 == [fw1 EXCEPT ![p][i + 1] = x]
         IN  SpliceSelfLoop(fw2, x, prev, i + 1, lvl)

\* Splice of lane 0 alone
SpliceLaneZero(fw, x, prev, i, lvl) ==
    LET p == prev[0]
        fw1 == [fw EXCEPT ![x][1] = fw[p][1]]
    IN  [fw1 EXCEPT ![p][1] = x]

\* for i := 0; i < lvl; i++ { x.forward[i], prev[i].forward[i] = prev[i].forward[i], x }
RECURSIVE Splice(_, _, _, _, _)
Splice(fw, x, prev, i, lvl) ==
    IF i >= lvl THEN fw
    ELSE LET p == prev[i]
             old == fw[p][i + 1]
             fw1 == [fw EXCEPT ![x][i + 1] = old]
             fw2 == [fw1 EXCEPT ![p][i + 1] = x]
         IN  Splice(fw2, x, prev, i + 1, lvl)

\* sl.randomLevel: every height from 1 to maxLevel can be drawn
randomLevel == 1..maxLevel

Put(m, itm) == {s \in m : s.Key # itm.Key} \cup {itm}
Remove(m, itm) == {s \in m : s.Key # itm.Key}

\* Insert without the nil check
InsertRejectsNever(itm) == FALSE

\* if item == nil { panic(...) }
InsertRejects(itm) == itm = NilItem

\* UpdateItem that leaves the old item in place
UpdateItemDropped(x, itm) == item

\* x.item = item, on the node that already holds an equivalent item
UpdateItem(x, itm) == [item EXCEPT ![x] = itm]

Insert(itm) ==
    /\ IF InsertRejects(itm)
       THEN /\ ret' = [op |-> "Insert", out |-> "panic"]
            /\ UNCHANGED <<listvars, ref>>
       ELSE LET d == Descend(itm)
                x == Fwd(d.x, 0)
            IN  /\ ref' = Put(ref, itm)
                /\ ret' = [op |-> "Insert",
                           out |-> IF IsMatch(x, itm) THEN "updated"
                                   ELSE "inserted"]
                /\ IF IsMatch(x, itm)
                   THEN /\ item' = UpdateItem(x, itm)
                        /\ UNCHANGED <<maxLevel, level, length, forward, flen,
                                       nalloc, freelist>>
                   ELSE \E lvl \in randomLevel :
                        LET prev == IF lvl > level THEN RaisePrev(d.prev, lvl)
                                    ELSE d.prev
                            nn == newNode(lvl)
                        IN  /\ level' = Max(level, lvl)
                            /\ item' = [nn.item EXCEPT ![nn.n] = itm]
                            /\ forward' = Splice(nn.forward, nn.n, prev, 0, lvl)
                            /\ flen' = nn.flen
                            /\ nalloc' = nn.nalloc
                            /\ freelist' = nn.freelist
                            /\ length' = length + 1
                            /\ UNCHANGED maxLevel

\* --------------------------------------------------------------- Delete
\* Unsplice that points the predecessor at nil instead of x.forward[i]
RECURSIVE UnspliceTruncates(_, _, _, _)
UnspliceTruncates(fw, x, prev, i) ==
    IF i >= level THEN fw
    ELSE IF fw[prev[i]][i + 1] # x THEN fw
    ELSE UnspliceTruncates([fw EXCEPT ![prev[i]][i + 1] = Nil], x, prev, i + 1)

\* Unsplice of lane 0 alone
UnspliceLaneZero(fw, x, prev, i) ==
    IF fw[prev[0]][1] # x THEN fw
    ELSE [fw EXCEPT ![prev[0]][1] = fw[x][1]]

\* Unsplice that stops one lane below sl.level
RECURSIVE UnspliceBelowTop(_, _, _, _)
UnspliceBelowTop(fw, x, prev, i) ==
    IF i >= level - 1 /\ i > 0 THEN fw
    ELSE IF fw[prev[i]][i + 1] # x THEN fw
    ELSE UnspliceBelowTop([fw EXCEPT ![prev[i]][i + 1] = fw[x][i + 1]],
                          x, prev, i + 1)

\* for i := 0; i < sl.level; i++ { if prev[i].forward[i] != x { break }; ... }
RECURSIVE Unsplice(_, _, _, _)
Unsplice(fw, x, prev, i) ==
    IF i >= level THEN fw
    ELSE IF fw[prev[i]][i + 1] # x THEN fw
    ELSE Unsplice([fw EXCEPT ![prev[i]][i + 1] = fw[x][i + 1]], x, prev, i + 1)

\* Delete without the loop that lowers sl.level
ShrinkNever(fw, lv) == lv

\* for sl.level > 1 && sl.header.forward[sl.level-1] == nil { sl.level-- }
RECURSIVE Shrink(_, _)
Shrink(fw, lv) ==
    IF lv > 1 /\ fw[Header][lv] = Nil THEN Shrink(fw, lv - 1) ELSE lv

Delete(itm) ==
    /\ IF DescentPanics(itm)
       THEN /\ ret' = [op |-> "Delete", out |-> "panic"]
            /\ UNCHANGED <<listvars, ref>>
       ELSE LET d == Descend(itm)
                x == Fwd(d.x, 0)
            IN  IF x # Nil /\ itm = NilItem
                THEN /\ ret' = [op |-> "Delete", out |-> "panic"]
                     /\ UNCHANGED <<listvars, ref>>
                ELSE /\ ref' = IF itm = NilItem THEN ref ELSE Remove(ref, itm)
                     /\ IF IsMatch(x, itm)
                        THEN LET fw == Unsplice(forward, x, d.prev, 0)
                                 fr == freeNode(x, item, fw)
                             IN  /\ level' = Shrink(fw, level)
                                 /\ item' = fr.item
                                 /\ forward' = fr.forward
                                 /\ freelist' = fr.freelist
                                 /\ length' = length - 1
                                 /\ ret' = [op |-> "Delete", out |-> "true"]
                                 /\ UNCHANGED <<maxLevel, flen, nalloc>>
                        ELSE /\ ret' = [op |-> "Delete", out |-> "false"]
                             /\ UNCHANGED listvars


\* ------------------------------------------------------------- Iterator
\* sl.NewIterator()
NewIterator ==
    /\ it' = Fwd(Header, 0)
    /\ ret' = [op |-> "NewIterator", out |-> "ok"]
    /\ UNCHANGED <<listvars, range, got, ref>>

\* it.Valid() and it.Value()
Valid == it # Nil
Value == item[it]

\* Next following the node's topmost lane instead of lane 0
NextOfTop(x) == Fwd(x, flen[x] - 1)

\* it.x.forward[0]
NextOf(x) == Fwd(x, 0)

\* it.Next(): a nil it.x is dereferenced, which panics
IterNext ==
    /\ it # NoIter
    /\ IF it = Nil
       THEN /\ ret' = [op |-> "Next", out |-> "panic"]
            /\ it' = it
       ELSE /\ ret' = [op |-> "Next", out |-> "ok"]
            /\ it' = NextOf(it)
    /\ UNCHANGED <<listvars, range, got, ref>>

\* it.MoveTo(item)
MoveTo(key) ==
    /\ it # NoIter
    /\ it' = searchNode(key)
    /\ ret' = [op |-> "MoveTo", out |-> "ok"]
    /\ UNCHANGED <<listvars, range, got, ref>>

\* for it := sl.NewIterator(); it.Valid(); it.Next() { ... it.Value() ... }
RECURSIVE IterFrom(_)
IterFrom(x) == IF x = Nil THEN <<>> ELSE <<item[x]>> \o IterFrom(NextOf(x))

IterAll == IterFrom(Fwd(Header, 0))

\* ---------------------------------------------------------------- Range
\* NewRange that stops at the node holding end instead of after it
NewRangeExclusiveEnd(b, e) ==
    LET minNode == Fwd(Header, 0)
    IN  IF minNode = Nil \/ Less(e, b)
        THEN [begin |-> Nil, end |-> Nil]
        ELSE LET bn == searchNode(b)
                 beginNode == IF bn = Nil /\ Less(b, item[minNode])
                              THEN minNode ELSE bn
                 en == searchNode(e)
                 nend == IF en = Nil
                         THEN (IF Less(e, item[minNode]) THEN minNode ELSE en)
                         ELSE en
             IN  [begin |-> beginNode, end |-> nend]

\* sl.NewRange(begin, end): the begin and end nodes of the Range returned
NewRangeOf(b, e) ==
    LET minNode == Fwd(Header, 0)
    IN  IF minNode = Nil \/ Less(e, b)
        THEN [begin |-> Nil, end |-> Nil]
        ELSE LET bn == searchNode(b)
                 beginNode == IF bn = Nil /\ Less(b, item[minNode])
                              THEN minNode ELSE bn
                 en == searchNode(e)
                 nend == IF en = Nil
                         THEN (IF Less(e, item[minNode]) THEN minNode ELSE en)
                         ELSE (IF ~Less(e, item[en]) THEN Fwd(en, 0) ELSE en)
             IN  [begin |-> beginNode, end |-> nend]

\* for x := r.begin; x != r.end; x = x.forward[0] { f(x.item) }: the items
\* handed to f, and whether the loop ran into a nil x
RECURSIVE ForEachFrom(_, _, _)
ForEachFrom(x, end, acc) ==
    IF x = end THEN [visited |-> acc, panic |-> FALSE]
    ELSE IF x = Nil THEN [visited |-> acc, panic |-> TRUE]
    ELSE ForEachFrom(Fwd(x, 0), end, Append(acc, item[x]))

ForEachOf(r) == ForEachFrom(r.begin, r.end, <<>>)

NewRange(b, e) ==
    /\ range' = NewRangeOf(b, e)
    /\ got' = <<>>
    /\ ret' = [op |-> "NewRange", out |-> "ok"]
    /\ UNCHANGED <<listvars, it, ref>>

ForEach ==
    /\ range # NoRange
    /\ got' = ForEachOf(range).visited
    /\ ret' = [op |-> "ForEach",
               out |-> IF ForEachOf(range).panic THEN "panic" ELSE "ok"]
    /\ UNCHANGED <<listvars, it, range, ref>>

\* ------------------------------------------------------------- the list
\* NewWithLevel(maxLevel), for every maxLevel the model bounds allow
Init ==
    /\ maxLevel \in {m \in 1..MaxLevelBound : ~(m < 1 \/ m > DefaultMaxLevel)}
    /\ level = 1
    /\ length = 0
    /\ item = (Header :> NilItem)
    /\ forward = (Header :> [j \in 1..maxLevel |-> Nil])
    /\ flen = (Header :> maxLevel)
    /\ nalloc = 0
    /\ freelist = <<>>
    /\ it = NoIter
    /\ range = NoRange
    /\ got = <<>>
    /\ ret = [op |-> "New", out |-> "ok"]
    /\ ref = {}

\* the caller holds no iterator and no range
Idle == UNCHANGED <<it, range, got>>

InsertAny == \E itm \in Items \cup {NilItem} : Insert(itm) /\ Idle
DeleteAny == \E itm \in Items \cup {NilItem} : Delete(itm) /\ Idle

Next == InsertAny \/ DeleteAny

Spec == Init /\ [][Next]_vars

\* the keys used to seek and to bound ranges: the stored keys, one below
\* and one above them
Probes == {[Key |-> k, Value |-> 0] : k \in 0..(MaxKey + 1)}
PlainItems == {i \in Items : i.Value = 0}

\* Mutating the list while an iterator or a range is live is outside the
\* package's contract: the caller lets go of them before it mutates.
Release == it' = NoIter /\ range' = NoRange /\ got' = <<>>

InsertPlain == \E itm \in PlainItems : Insert(itm) /\ Release
DeletePlain == \E itm \in PlainItems : Delete(itm) /\ Release
MoveToAny == \E key \in Probes : MoveTo(key)
NewRangeAny == \E b \in Probes, e \in Probes : NewRange(b, e)

NextIter == InsertPlain \/ DeletePlain \/ NewIterator \/ IterNext \/ MoveToAny

SpecIter == Init /\ [][NextIter]_vars

NextRange == InsertPlain \/ DeletePlain \/ NewRangeAny \/ ForEach

SpecRange == Init /\ [][NextRange]_vars

\* a caller that fills and drains the list like a stack: it inserts the key
\* after the largest one stored and deletes the largest one, on a list made
\* by NewWithLevel(1), until MaxNodes nodes were allocated, which is more
\* than the pool can hold
PoolItem(k) == [Key |-> k, Value |-> 0]

InitPool == Init /\ maxLevel = 1

PushNext ==
    /\ length < MaxNodes
    /\ Len(freelist) > 0 \/ nalloc < MaxNodes
    /\ Insert(PoolItem(length + 1))
    /\ Idle

PopTop == length > 0 /\ Delete(PoolItem(length)) /\ Idle

NextPool == PushNext \/ PopTop

SpecPool == InitPool /\ [][NextPool]_vars

\* ------------------------------------------------- what the claims speak of
\* the nodes of lane 0, from header.forward[0]
RECURSIVE Lane0From(_)
Lane0From(x) == IF x = Nil THEN <<>> ELSE <<x>> \o Lane0From(forward[x][1])

Lane0 == Lane0From(forward[Header][1])

\* the position of an iterator on lane 0; past the last node when it is nil
Pos(x) ==
    IF x = Nil THEN Len(Lane0) + 1
    ELSE CHOOSE i \in 1..Len(Lane0) : Lane0[i] = x

\* two items neither of which is less than the other
Equiv(a, b) == ~Less(a, b) /\ ~Less(b, a)

\* an item equivalent to itm is stored
KeyStored(itm) == \E i \in DOMAIN IterAll : Equiv(IterAll[i], itm)

\* the reference map, enumerated in ascending order
RECURSIVE SortedSeq(_)
SortedSeq(m) ==
    IF m = {} THEN <<>>
    ELSE LET lo == CHOOSE s \in m : \A t \in m : ~Less(t, s)
         IN  <<lo>> \o SortedSeq(m \ {lo})

\* the items of the reference map between b and e inclusive, ascending
Window(b, e) == SelectSeq(SortedSeq(ref), LAMBDA s : ~Less(s, b) /\ ~Less(e, s))

\* C1: a fresh iterator yields the stored items in strictly ascending order
\* under Less, no two of them equivalent.
C1_Ascending ==
    LET s == IterAll
    IN  \A i, j \in DOMAIN s :
            i < j => Less(s[i], s[j]) /\ ~Less(s[j], s[i])

C1_Witness ==
    /\ ret = [op |-> "Insert", out |-> "inserted"]
    /\ length = 2 /\ Len(freelist) = 1 /\ level >= 2

\* C2: Search(k) returns the stored item equivalent to k exactly when the
\* reference map holds k, and nil otherwise.
C2_SearchRefines ==
    \A k \in Items :
        IF \E s \in ref : Equiv(s, k)
        THEN Search(k) \in ref /\ Equiv(Search(k), k)
        ELSE Search(k) = NilItem

C2_Witness ==
    /\ ret = [op |-> "Delete", out |-> "true"]
    /\ Cardinality(ref) = 2 /\ level >= 2

\* C3: Len() is the number of nodes on lane 0 and the number of distinct
\* keys inserted and not since deleted; a drained list yields nothing.
C3_LenCounts ==
    /\ SkipListLen = Len(Lane0)
    /\ SkipListLen = Len(IterAll)
    /\ SkipListLen = Cardinality(ref)
    /\ (ref = {} => SkipListLen = 0 /\ Fwd(Header, 0) = Nil)

C3_Witness ==
    /\ ret = [op |-> "Delete", out |-> "true"]
    /\ length = 0 /\ nalloc = MaxKey

\* C4: Insert of an item equivalent to a stored one creates no node: Len,
\* level, every forward pointer and the free list stay as they were, and
\* only the stored item of the existing node is replaced by the new item.
C4_UpdateInPlace ==
    [][\A itm \in Items :
        (ret'.op = "Insert" /\ KeyStored(itm) /\ Insert(itm)) =>
            /\ ret'.out = "updated"
            /\ UNCHANGED <<maxLevel, level, length, forward, flen, nalloc,
                           freelist>>
            /\ \E x \in NodeIds :
                /\ x \in {Lane0[i] : i \in DOMAIN Lane0}
                /\ Equiv(item[x], itm)
                /\ item' = [item EXCEPT ![x] = itm]
            /\ (Search(itm))' = itm]_vars

C4_Witness ==
    /\ ret = [op |-> "Insert", out |-> "updated"]
    /\ length = 2 /\ level >= 2
    /\ \E i \in DOMAIN IterAll : IterAll[i].Value = 1

\* C5: Delete of a stored key returns true, decrements Len by one, makes
\* Search of the key return nil and keeps every other item, in order.
C5_DeleteStored ==
    [][\A itm \in Items :
        (ret'.op = "Delete" /\ KeyStored(itm) /\ Delete(itm)) =>
            /\ ret'.out = "true"
            /\ length' = length - 1
            /\ (Search(itm))' = NilItem
            /\ IterAll' = SelectSeq(IterAll, LAMBDA s : ~Equiv(s, itm))]_vars

C5_Witness ==
    /\ ret = [op |-> "Delete", out |-> "true"]
    /\ length = 2 /\ level >= 2 /\ Len(freelist) = 1

\* C6: Delete of a key that is not stored returns false and changes nothing
\* of the structure.
C6_DeleteAbsent ==
    [][\A itm \in Items :
        (ret'.op = "Delete" /\ ~KeyStored(itm) /\ Delete(itm)) =>
            /\ ret'.out = "false"
            /\ UNCHANGED listvars]_vars

C6_Witness ==
    /\ ret = [op |-> "Delete", out |-> "false"]
    /\ length = 2 /\ level >= 2

\* C7: NewRange(begin, end).ForEach visits exactly the stored items between
\* begin and end inclusive, each once, ascending; nothing when the list is
\* empty, when end is less than begin or when the window holds no item.
C7_RangeWindow ==
    /\ \A b \in Probes, e \in Probes :
        ForEachOf(NewRangeOf(b, e)) = [visited |-> Window(b, e), panic |-> FALSE]
    /\ ret.op = "ForEach" =>
        /\ ret.out = "ok"
        /\ \E b \in Probes, e \in Probes :
            range = NewRangeOf(b, e) /\ got = Window(b, e)

C7_Witness ==
    /\ ret = [op |-> "ForEach", out |-> "ok"]
    /\ length = 3 /\ Len(got) = 2 /\ level >= 2

\* C8: after MoveTo(k) the iterator is valid exactly when some stored item
\* is not less than k, and then stands on the smallest such item, whatever
\* its position was before.
C8_MoveTo ==
    [][\A k \in Probes :
        MoveTo(k) =>
            LET ge == {s \in ref : ~Less(s, k)}
            IN  /\ (it' # Nil) <=> (ge # {})
                /\ ge # {} =>
                    /\ item[it'] \in ge
                    /\ \A s \in ge : ~Less(s, item[it'])]_vars

C8_Witness ==
    /\ ret = [op |-> "MoveTo", out |-> "ok"]
    /\ it # Nil /\ it # Fwd(Header, 0) /\ length = 3

\* C9 as stated: no Next and no MoveTo moves an iterator back along lane 0,
\* and once it is invalid none of them makes it valid again.
C9_Original ==
    [][(IterNext \/ \E k \in Probes : MoveTo(k)) =>
            /\ Pos(it') >= Pos(it)
            /\ it = Nil => it' = Nil]_vars

\* C9 amended: Next moves a valid iterator to the following node of lane 0
\* (or past the last one); Next on an exhausted iterator panics and leaves
\* it invalid, so no Next makes it valid again.  MoveTo is not bound by this.
C9_NextForward ==
    [][IterNext =>
            /\ it # Nil => (Pos(it') = Pos(it) + 1 /\ ret'.out = "ok")
            /\ it = Nil => (it' = Nil /\ ret'.out = "panic")]_vars

C9_Witness ==
    /\ ret = [op |-> "Next", out |-> "panic"]
    /\ it = Nil /\ length >= 2

\* C10 as stated: Insert(nil) panics before any mutation, and no other
\* Insert or Delete call fails.
C10_Original ==
    [][/\ Insert(NilItem) => (ret'.out = "panic" /\ UNCHANGED listvars)
       /\ ret'.out = "panic" =>
            /\ \A itm \in Items : ~Insert(itm)
            /\ \A itm \in Items \cup {NilItem} : ~Delete(itm)]_vars

\* C10 amended: Insert(nil) panics before any mutation; no Insert or Delete
\* of a non-nil item fails; Delete(nil) returns false on an empty list and
\* panics in the comparison, before any mutation, on a list that holds items.
C10_NilPanics ==
    [][/\ Insert(NilItem) => (ret'.out = "panic" /\ UNCHANGED listvars)
       /\ ret'.out = "panic" => \A itm \in Items : ~(Insert(itm) \/ Delete(itm))
       /\ Delete(NilItem) =>
            /\ UNCHANGED listvars
            /\ ret'.out = IF length = 0 THEN "false" ELSE "panic"]_vars

C10_Witness ==
    /\ ret = [op |-> "Insert", out |-> "panic"]
    /\ length = 2 /\ level >= 2

\* ------------------------------------------------------ lanes and heights
\* the nodes lane i visits from header.forward[i], following forward[i];
\* at most fuel nodes, so that a cyclic lane yields more nodes than exist
RECURSIVE LaneFrom(_, _, _)
LaneFrom(x, i, fuel) ==
    IF x = Nil \/ fuel = 0 THEN <<>>
    ELSE IF i >= Len(forward[x]) THEN <<x>>
    ELSE <<x>> \o LaneFrom(forward[x][i + 1], i, fuel - 1)

LaneSeq(i) == LaneFrom(forward[Header][i + 1], i, nalloc + 1)

\* the nodes currently stored: those of lane 0
Stored == {Lane0[k] : k \in DOMAIN Lane0}

\* the nodes of a set s that take part in lane i
OnLane(s, i) == {n \in s : flen[n] > i}

\* C11 as stated: every lane below level holds a node, in every state.
C11_Original == \A i \in 0..(level - 1) : Fwd(Header, i) # Nil

\* C11 amended: while an item is stored, header.forward[i] is a stored node
\* for every lane i below level; in the empty list level is 1 and
\* header.forward[0] is nil.
C11_LanesOccupied ==
    /\ length > 0 => \A i \in 0..(level - 1) : Fwd(Header, i) \in Stored
    /\ length = 0 => (level = 1 /\ Fwd(Header, 0) = Nil)

C11_Witness ==
    /\ ret = [op |-> "Delete", out |-> "true"]
    /\ length >= 1 /\ level = 1 /\ maxLevel >= 2
    /\ \E k \in DOMAIN freelist : Len(forward[freelist[k]]) >= 2

\* C12: level is the greatest height among the stored nodes, or 1 in the
\* empty list, so 1 <= level <= maxLevel; it grows only in an Insert whose
\* new node is taller than it and shrinks only in a Delete that removes a
\* node of the topmost lane.
C12_LevelIsMaxHeight ==
    /\ [](/\ level \in 1..maxLevel
          /\ \A n \in Stored : flen[n] <= level
          /\ Stored # {} => \E n \in Stored : flen[n] = level
          /\ Stored = {} => level = 1)
    /\ [][/\ level' > level =>
                /\ ret' = [op |-> "Insert", out |-> "inserted"]
                /\ \E n \in Stored' \ Stored : flen'[n] = level'
          /\ level' < level =>
                /\ ret' = [op |-> "Delete", out |-> "true"]
                /\ \E n \in Stored \ Stored' : flen[n] = level
                /\ OnLane(Stored', level - 1) = {}]_vars

C12_Witness ==
    /\ ret = [op |-> "Insert", out |-> "inserted"]
    /\ level = 2 /\ length = 3
    /\ Cardinality(OnLane(Stored, 1)) = 1

\* C13: for every lane i below maxLevel, header.forward[i] is the stored
\* node of lowest key among those with more than i forward entries, or nil
\* when there is none; so it is nil for every lane at or above level.
C13_HeaderPointsAtLowest ==
    /\ \A i \in 0..(maxLevel - 1) :
        LET c == OnLane(Stored, i)
            h == Fwd(Header, i)
        IN  IF c = {} THEN h = Nil
            ELSE h \in c /\ \A m \in c : ~Less(item[m], item[h])
    /\ \A i \in level..(maxLevel - 1) : Fwd(Header, i) = Nil

C13_Witness ==
    /\ ret = [op |-> "Insert", out |-> "inserted"]
    /\ level = 2 /\ length = 3 /\ Len(freelist) = 0
    /\ Fwd(Header, 1) # Fwd(Header, 0)

\* C14: lane 0 holds every stored node, and every lane i visits exactly the
\* stored nodes with more than i forward entries, in the order of lane 0.
C14_LanesAreSubsequences ==
    /\ {item[n] : n \in Stored} = ref
    /\ Len(Lane0) = Cardinality(ref)
    /\ \A i \in 0..(maxLevel - 1) :
        LaneSeq(i) = SelectSeq(Lane0, LAMBDA n : flen[n] > i)

C14_Witness ==
    /\ length = 3 /\ level = 2
    /\ Len(LaneSeq(1)) = 2
    /\ flen[Lane0[2]] = 1

\* C15: after Delete(k) returns true, no forward pointer of the header or
\* of a node still stored, at any lane, points to the removed node.
C15_RemovedIsUnlinked ==
    [][\A itm \in Items :
        (ret'.op = "Delete" /\ KeyStored(itm) /\ Delete(itm)) =>
            LET x == CHOOSE n \in Stored : Equiv(item[n], itm)
            IN  /\ ret'.out = "true"
                /\ x \notin Stored'
                /\ \A n \in {Header} \cup Stored' :
                    \A j \in 1..flen'[n] : forward'[n][j] # x]_vars

C15_Witness ==
    /\ ret = [op |-> "Delete", out |-> "true"]
    /\ level = 2 /\ length = 2
    /\ Len(forward[freelist[Len(freelist)]]) = 1

\* C16: no pooled node is reachable from the header along any lane, no node
\* is pooled twice, and the header is never pooled.
C16_PoolIsDisjoint ==
    LET pooled == {freelist[k] : k \in DOMAIN freelist}
    IN  /\ Cardinality(pooled) = Len(freelist)
        /\ Header \notin pooled
        /\ pooled \subseteq NodeIds
        /\ \A i \in 0..(maxLevel - 1) :
            \A k \in DOMAIN LaneSeq(i) : LaneSeq(i)[k] \notin pooled
        /\ \A n \in {Header} \cup Stored :
            \A j \in 1..flen[n] : forward[n][j] \notin pooled

C16_Witness ==
    /\ ret = [op |-> "Insert", out |-> "inserted"]
    /\ length = 2 /\ Len(freelist) = 1 /\ nalloc = 3 /\ level = 2

\* C17: the free list never holds more than DefaultFreeListSize nodes;
\* freeNode pools the node and returns true exactly when the pool held fewer
\* than that before the call and otherwise returns false and leaves the pool
\* as it was; newNode takes the most recently pooled node when there is one
\* and always yields a node.
C17_PoolBounded ==
    /\ [](/\ Len(freelist) <= DefaultFreeListSize
          /\ \A n \in Stored :
                LET fr == freeNode(n, item, forward)
                IN  /\ fr.out = (Len(freelist) < DefaultFreeListSize)
                    /\ fr.freelist = IF fr.out THEN Append(freelist, n)
                                     ELSE freelist
          /\ \A lvl \in randomLevel :
                LET nn == newNode(lvl)
                IN  /\ nn.n # Nil /\ nn.n # Header
                    /\ IF Len(freelist) = 0
                       THEN nn.n \notin Nodes /\ nn.freelist = <<>>
                       ELSE /\ nn.n = freelist[Len(freelist)]
                            /\ nn.freelist = SubSeq(freelist, 1, Len(freelist) - 1)
                            /\ nn.nalloc = nalloc)
    /\ [][/\ ret'.op = "Delete" /\ length' < length =>
                \E x \in Stored \ Stored' :
                    freelist' = IF Len(freelist) < DefaultFreeListSize
                                THEN Append(freelist, x) ELSE freelist
          /\ ret'.op = "Insert" /\ length' > length =>
                \E x \in Stored' \ Stored :
                    IF Len(freelist) = 0
                    THEN x = nalloc' /\ nalloc' = nalloc + 1 /\ freelist' = <<>>
                    ELSE /\ x = freelist[Len(freelist)]
                         /\ freelist' = SubSeq(freelist, 1, Len(freelist) - 1)
                         /\ nalloc' = nalloc]_vars

C17_Witness ==
    /\ ret = [op |-> "Delete", out |-> "true"]
    /\ Len(freelist) = DefaultFreeListSize
    /\ nalloc = DefaultFreeListSize + 1
    /\ length = 0

\* C18: every node newNode(lvl) returns, fresh or recycled from a pooled
\* node of any earlier height, has exactly lvl forward entries, all nil, and
\* a nil item; every pooled node has its item and every slot of its forward
\* backing storage cleared.
C18_NodesComeClean ==
    /\ \A k \in DOMAIN freelist :
        LET n == freelist[k]
        IN  /\ item[n] = NilItem
            /\ \A j \in 1..Len(forward[n]) : forward[n][j] = Nil
    /\ \A lvl \in randomLevel :
        LET nn == newNode(lvl)
        IN  /\ nn.flen[nn.n] = lvl
            /\ Len(nn.forward[nn.n]) >= lvl
            /\ \A j \in 1..lvl : nn.forward[nn.n][j] = Nil
            /\ nn.item[nn.n] = NilItem

C18_Witness ==
    /\ ret = [op |-> "Delete", out |-> "true"]
    /\ Len(freelist) = 2
    /\ Len(forward[freelist[1]]) = 1
    /\ Len(forward[freelist[2]]) = 2 /\ flen[freelist[2]] = 1

\* ----------------------------------------------------------- termination
\* the advances x = y the descent for key makes, from node x on lane i after
\* n advances; it gives up once n exceeds the number of items
RECURSIVE DescentSteps(_, _, _, _)
DescentSteps(x, i, key, n) ==
    IF i < 0 \/ n > length THEN n
    ELSE LET y == Fwd(x, i)
         IN  IF y # Nil /\ Less(item[y], key)
             THEN DescentSteps(y, i, key, n + 1)
             ELSE DescentSteps(x, i - 1, key, n)

\* the iterations of ForEach's loop from x to end, given up after length + 1
RECURSIVE ForEachSteps(_, _, _)
ForEachSteps(x, end, n) ==
    IF x = end \/ x = Nil \/ n > length THEN n
    ELSE ForEachSteps(Fwd(x, 0), end, n + 1)

\* C19: every lane is a finite chain without a cycle that ends in nil, a
\* descent (of Search, Insert, Delete, MoveTo, NewRange) advances over at
\* most Len() nodes, and ForEach reaches the end of its range within Len()
\* iterations: each call terminates.
C19_Terminates ==
    /\ \A i \in 0..(maxLevel - 1) :
        /\ Len(LaneSeq(i)) <= length
        /\ \A k \in DOMAIN LaneSeq(i) :
            /\ flen[LaneSeq(i)[k]] > i
            /\ \A m \in DOMAIN LaneSeq(i) : LaneSeq(i)[k] = LaneSeq(i)[m] => k = m
    /\ \A key \in Probes : DescentSteps(Header, level - 1, key, 0) <= length
    /\ range # NoRange =>
        /\ ForEachSteps(range.begin, range.end, 0) <= length
        /\ ~ForEachOf(range).panic

C19_Witness ==
    /\ ret = [op |-> "ForEach", out |-> "ok"]
    /\ length = MaxKey /\ Len(got) = MaxKey
    /\ ForEachSteps(range.begin, range.end, 0) = length
    /\ \E key \in Probes : DescentSteps(Header, level - 1, key, 0) = length

\* ---------------------------------------------------------- memory safety
\* reading or writing x.forward[i] neither dereferences nil nor indexes past
\* len(x.forward)
AccessOK(fl, x, i) == x # Nil /\ x \in DOMAIN fl /\ i >= 0 /\ i < fl[x]

\* every x.forward[i] the descent for key reads, from node x on lane i, and
\* the x.forward[0] read after it
RECURSIVE DescentSafe(_, _, _)
DescentSafe(x, i, key) ==
    IF i < 0 THEN AccessOK(flen, x, 0)
    ELSE /\ AccessOK(flen, x, i)
         /\ LET y == Fwd(x, i)
            IN  IF y # Nil /\ Less(item[y], key)
                THEN DescentSafe(y, i, key)
                ELSE DescentSafe(x, i - 1, key)

\* the accesses of Insert's splice loop, for every height it can draw
InsertSafe(itm) ==
    LET d == Descend(itm)
        x == Fwd(d.x, 0)
    IN  ~IsMatch(x, itm) =>
            \A lvl \in randomLevel :
                LET prev == IF lvl > level THEN RaisePrev(d.prev, lvl)
                            ELSE d.prev
                    nn == newNode(lvl)
                IN  /\ \A i \in 0..(lvl - 1) : i \in DOMAIN prev
                    /\ \A i \in 0..(lvl - 1) :
                        /\ AccessOK(nn.flen, nn.n, i)
                        /\ AccessOK(nn.flen, prev[i], i)

\* the accesses of Delete's unsplice loop from lane i on
RECURSIVE UnspliceSafe(_, _, _)
UnspliceSafe(x, prev, i) ==
    IF i >= level THEN TRUE
    ELSE /\ AccessOK(flen, prev[i], i)
         /\ IF Fwd(prev[i], i) # x THEN TRUE
            ELSE AccessOK(flen, x, i) /\ UnspliceSafe(x, prev, i + 1)

\* the accesses of Delete's unsplice and shrink loops
DeleteSafe(itm) ==
    LET d == Descend(itm)
        x == Fwd(d.x, 0)
    IN  IsMatch(x, itm) =>
            /\ \A i \in 0..(level - 1) : i \in DOMAIN d.prev
            /\ UnspliceSafe(x, d.prev, 0)
            /\ \A lv \in 1..level : AccessOK(flen, Header, lv - 1)

\* C20: Search, searchNode, Insert and Delete never index a forward array at
\* or beyond its length and never dereference a nil node, for every key and
\* every height Insert can draw, recycled and resliced nodes included.
C20_AccessesInBounds ==
    /\ maxLevel <= DefaultMaxLevel
    /\ \A itm \in Items \cup Probes :
        /\ DescentSafe(Header, level - 1, itm)
        /\ InsertSafe(itm)
        /\ DeleteSafe(itm)

C20_Witness ==
    /\ ret = [op |-> "Insert", out |-> "inserted"]
    /\ level = 2 /\ length = 3
    /\ \E n \in Stored : flen[n] = 1 /\ Len(forward[n]) = 2
    /\ Len(freelist) = 0 /\ nalloc = 3

\* ------------------------------------------- independence of level draws
\* what a caller can observe in the current state: Len, the full iteration,
\* and for every key Search, the item MoveTo lands on, and for every pair
\* of keys the items NewRange(b, e).ForEach hands out
ItemAt(x) == IF x = Nil THEN NilItem ELSE item[x]

Observed ==
    [len |-> SkipListLen,
     all |-> IterAll,
     search |-> [key \in Probes \cup Items |-> Search(key)],
     seek |-> [key \in Probes |-> ItemAt(searchNode(key))],
     window |-> [b \in Probes, e \in Probes |-> ForEachOf(NewRangeOf(b, e))]]

\* the same observations computed from the map m of stored items alone
Expected(m) ==
    [len |-> Cardinality(m),
     all |-> SortedSeq(m),
     search |-> [key \in Probes \cup Items |->
                    IF \E s \in m : Equiv(s, key)
                    THEN CHOOSE s \in m : Equiv(s, key) ELSE NilItem],
     seek |-> [key \in Probes |->
                  LET ge == {s \in m : ~Less(s, key)}
                  IN  IF ge = {} THEN NilItem
                      ELSE CHOOSE s \in ge : \A t \in ge : ~Less(t, s)],
     window |-> [b \in Probes, e \in Probes |->
                    [visited |-> SelectSeq(SortedSeq(m),
                                     LAMBDA s : ~Less(s, b) /\ ~Less(e, s)),
                     panic |-> FALSE]]]

\* the outcome of Insert(itm) and of Delete(itm) on the map m alone
InsertOutcome(m, itm) ==
    IF itm = NilItem THEN [ref |-> m, out |-> "panic"]
    ELSE [ref |-> Put(m, itm),
          out |-> IF \E s \in m : Equiv(s, itm) THEN "updated" ELSE "inserted"]

DeleteOutcome(m, itm) ==
    IF itm = NilItem
    THEN [ref |-> m, out |-> IF m = {} THEN "false" ELSE "panic"]
    ELSE [ref |-> Remove(m, itm),
          out |-> IF \E s \in m : Equiv(s, itm) THEN "true" ELSE "false"]

\* C21: the observable results do not depend on the level draws nor on
\* maxLevel: in every state Len, the full iteration, every Search, every
\* MoveTo position and every NewRange enumeration are those of the map of
\* stored items, and that map and the value an Insert or a Delete returns
\* are fixed by the map before and the operation, whatever height is drawn;
\* so two runs of the same operations agree on all of them.
C21_DrawsUnobservable ==
    /\ [](Observed = Expected(ref))
    /\ [][\A itm \in Items \cup {NilItem} :
            /\ (ret'.op = "Insert" /\ Insert(itm)) =>
                    [ref |-> ref', out |-> ret'.out] = InsertOutcome(ref, itm)
            /\ (ret'.op = "Delete" /\ Delete(itm)) =>
                    [ref |-> ref', out |-> ret'.out] = DeleteOutcome(ref, itm)]_vars

C21_Witness ==
    /\ ret = [op |-> "Delete", out |-> "true"]
    /\ maxLevel = MaxLevelBound /\ level = 2 /\ length = 2
    /\ flen[Lane0[1]] = 1 /\ flen[Lane0[2]] = 2
    /\ Len(forward[Lane0[1]]) = 2
    /\ item[Lane0[2]].Value = MaxValue

====
